---- MODULE Spec2Model ----
(***************************************************************************)
(* A model of xmanager.py: the XManager run context, its path helper       *)
(* (get_path / _ensure_dir / _is_dir), the recursive JSON conversion       *)
(* (jsonfy), get_params and save_params.                                   *)
(*                                                                         *)
(* Python strings are sequences of one-character strings, so that          *)
(* os.path.join, os.path.splitext and os.path.dirname are computed on      *)
(* characters as the library computes them.  Python values are records     *)
(* tagged with their runtime type, the thing jsonfy dispatches on.         *)
(***************************************************************************)
EXTENDS Integers, Sequences, FiniteSets, TLC

VARIABLES
    pc,        \* "new" before XManager(...), "ready" after it returned, "failed" after it raised
    argv0,     \* sys.argv[0] of the process (a string)
    ctx,       \* self.__dict__: sequence of <<name, value>> in insertion order
    dirs,      \* the directories of the file system (absolute component sequences)
    files,     \* the regular files of the file system: path -> content
    ret,       \* the last call: its name, arguments and outcome
    xdir0,     \* history: the value __init__ gave self.x_dir
    assigned,  \* history: user attribute names in order of first assignment
    steps      \* number of calls made on the context

vars == <<pc, argv0, ctx, dirs, files, ret, xdir0, assigned, steps>>

----------------------------------------------------------------------------
(* Bounds of the model.                                                    *)

\* calls made on one context after construction, in Spec
MaxSteps == 3
\* calls made on one context after construction, in SpecSer
MaxSerSteps == 4
\* nesting depth of the values handed to jsonfy in SpecJsonfy
MaxDepth == 2

----------------------------------------------------------------------------
(* Python values.                                                          *)

PyNone == [tag |-> "None"]
PyBool(b) == [tag |-> "bool", b |-> b]
PyInt(n) == [tag |-> "int", n |-> n]
\* a float with one decimal: whole + tenths/10
PyFloat(w, t) == [tag |-> "float", whole |-> w, tenths |-> t]
PyStr(s) == [tag |-> "str", s |-> s]
PyList(es) == [tag |-> "list", elems |-> es]
PyTuple(es) == [tag |-> "tuple", elems |-> es]
\* a dict: its items, <<key, value>>, in insertion order
PyDict(items) == [tag |-> "dict", items |-> items]
\* a numpy array: its shape and its buffer in row-major order
NdArray(shape, data) == [tag |-> "ndarray", shape |-> shape, data |-> data]
\* an instance of a user class: its __dict__ as items
PyObject(attrs) == [tag |-> "object", attrs |-> attrs]
\* a set(): no __dict__, not a container jsonfy knows, rejected by json.dumps
PySet == [tag |-> "set"]

\* the outcome of a call: a returned value, or a raised exception
Ok(v) == [raised |-> FALSE, val |-> v]
Raise(e) == [raised |-> TRUE, exc |-> e]

Range(s) == {s[i] : i \in 1..Len(s)}

\* index of the first element of a sequence of outcomes that raised, 0 if none
FirstRaised(rs) ==
    IF \E i \in 1..Len(rs) : rs[i].raised
    THEN CHOOSE i \in 1..Len(rs) : rs[i].raised /\ \A j \in 1..(i-1) : ~rs[j].raised
    ELSE 0

----------------------------------------------------------------------------
(* jsonfy.                                                                 *)

RECURSIVE Product(_)
Product(s) == IF s = <<>> THEN 1 ELSE Head(s) * Product(Tail(s))

\* numpy.ndarray.tolist: nested lists, one level per axis, cut out of the
\* row-major buffer; a 0-d array gives its scalar
RECURSIVE tolist(_, _)
tolist(shape, data) ==
    IF shape = <<>> THEN data[1]
    ELSE IF Len(shape) = 1 THEN PyList(data)
    ELSE LET stride == Product(Tail(shape))
         IN  PyList([i \in 1..shape[1] |->
                 tolist(Tail(shape), SubSeq(data, (i-1)*stride + 1, i*stride))])

\* hasattr(x, '__dict__')
hasattr_dict(x) == x.tag = "object"

\* json.dumps(x) of a value that is no container jsonfy handled: whether it
\* returns (TRUE) or raises TypeError (FALSE)
json_dumps_ok(x) == x.tag \in {"None", "bool", "int", "float", "str"}

\* a variant of jsonfy_leaf without the serializability check
jsonfy_leaf_unchecked(x) == Ok(x)

\* lines 111-117: a value without __dict__ is returned as it is when
\* json.dumps accepts it, and TypeError is raised otherwise
jsonfy_leaf(x) ==
    IF json_dumps_ok(x) THEN Ok(x) ELSE Raise("TypeError")

\* a variant of jsonfy_seq that keeps a tuple a tuple
jsonfy_seq_keep(x, rs) ==
    LET bad == FirstRaised(rs)
    IN  IF bad # 0 THEN rs[bad]
        ELSE Ok([tag |-> x.tag, elems |-> [i \in 1..Len(rs) |-> rs[i].val]])

\* lines 108-109: the list comprehension over the converted elements rs of a
\* list or tuple x; the first element that raises ends it
jsonfy_seq(x, rs) ==
    LET bad == FirstRaised(rs)
    IN  IF bad # 0 THEN rs[bad]
        ELSE Ok(PyList([i \in 1..Len(rs) |-> rs[i].val]))

\* lines 103-107 and 119-122: a new dict with the keys of items, as they
\* are, and the converted values rs; the first value that raises ends it
jsonfy_items(items, rs) ==
    LET bad == FirstRaised(rs)
    IN  IF bad # 0 THEN rs[bad]
        ELSE Ok(PyDict([i \in 1..Len(items) |-> <<items[i][1], rs[i].val>>]))

RECURSIVE jsonfy(_)
jsonfy(x) ==
    IF x.tag = "ndarray" THEN Ok(tolist(x.shape, x.data))
    ELSE IF x.tag = "dict"
    THEN jsonfy_items(x.items, [i \in 1..Len(x.items) |-> jsonfy(x.items[i][2])])
    ELSE IF x.tag \in {"list", "tuple"}
    THEN jsonfy_seq(x, [i \in 1..Len(x.elems) |-> jsonfy(x.elems[i])])
    ELSE IF ~hasattr_dict(x)
    THEN jsonfy_leaf(x)
    ELSE jsonfy_items(x.attrs, [i \in 1..Len(x.attrs) |-> jsonfy(x.attrs[i][2])])

----------------------------------------------------------------------------
(* json.dump and json.load.  A JSON text is kept as its syntax tree:       *)
(* numbers and strings by their characters, object members in order.       *)

Digits == <<"0", "1", "2", "3", "4", "5", "6", "7", "8", "9">>

\* str(n) of an int
RECURSIVE IntToChars(_)
IntToChars(n) ==
    IF n < 0 THEN <<"-">> \o IntToChars(-n)
    ELSE IF n < 10 THEN <<Digits[n + 1]>>
    ELSE IntToChars(n \div 10) \o <<Digits[(n % 10) + 1]>>

\* float.__repr__ of a float with one decimal
FloatToChars(x) == IntToChars(x.whole) \o <<".">> \o IntToChars(x.tenths)

DigitValue(c) == CHOOSE d \in 0..9 : Digits[d + 1] = c

\* int(s) of a string of digits with an optional sign
RECURSIVE CharsToInt(_)
CharsToInt(s) ==
    IF s[1] = "-" THEN -CharsToInt(Tail(s))
    ELSE IF Len(s) = 1 THEN DigitValue(s[1])
    ELSE 10 * CharsToInt(SubSeq(s, 1, Len(s) - 1)) + DigitValue(s[Len(s)])

JNull == [j |-> "null"]
JTrue == [j |-> "true"]
JFalse == [j |-> "false"]
JNumber(lexeme) == [j |-> "number", lexeme |-> lexeme]
JString(s) == [j |-> "string", chars |-> s]
JArray(es) == [j |-> "array", elems |-> es]
JObject(ms) == [j |-> "object", members |-> ms]

\* the JSON encoder's treatment of a dict key: a str is kept, a float, bool,
\* None or int becomes its JSON spelling, anything else raises TypeError
encode_key(k) ==
    IF k.tag = "str" THEN Ok(k.s)
    ELSE IF k.tag = "float" THEN Ok(FloatToChars(k))
    ELSE IF k.tag = "bool"
    THEN Ok(IF k.b THEN <<"t", "r", "u", "e">> ELSE <<"f", "a", "l", "s", "e">>)
    ELSE IF k.tag = "None" THEN Ok(<<"n", "u", "l", "l">>)
    ELSE IF k.tag = "int" THEN Ok(IntToChars(k.n))
    ELSE Raise("TypeError")

\* json.dump(v, f, indent=2): the text written, or TypeError for a value or
\* a key the encoder does not know
RECURSIVE json_dump(_)
json_dump(v) ==
    IF v.tag = "None" THEN Ok(JNull)
    ELSE IF v.tag = "bool" THEN Ok(IF v.b THEN JTrue ELSE JFalse)
    ELSE IF v.tag = "int" THEN Ok(JNumber(IntToChars(v.n)))
    ELSE IF v.tag = "float" THEN Ok(JNumber(FloatToChars(v)))
    ELSE IF v.tag = "str" THEN Ok(JString(v.s))
    ELSE IF v.tag \in {"list", "tuple"}
    THEN LET rs == [i \in 1..Len(v.elems) |-> json_dump(v.elems[i])]
             bad == FirstRaised(rs)
         IN  IF bad # 0 THEN rs[bad]
             ELSE Ok(JArray([i \in 1..Len(rs) |-> rs[i].val]))
    ELSE IF v.tag = "dict"
    THEN LET ks == [i \in 1..Len(v.items) |-> encode_key(v.items[i][1])]
             rs == [i \in 1..Len(v.items) |-> json_dump(v.items[i][2])]
         IN  IF FirstRaised(ks) # 0 \/ FirstRaised(rs) # 0 THEN Raise("TypeError")
             ELSE Ok(JObject([i \in 1..Len(rs) |-> <<ks[i].val, rs[i].val>>]))
    ELSE Raise("TypeError")

\* json.load of a text json.dump wrote
RECURSIVE json_load(_)
json_load(d) ==
    IF d.j = "null" THEN PyNone
    ELSE IF d.j = "true" THEN PyBool(TRUE)
    ELSE IF d.j = "false" THEN PyBool(FALSE)
    ELSE IF d.j = "number"
    THEN IF \E i \in 1..Len(d.lexeme) : d.lexeme[i] = "."
         THEN LET dot == CHOOSE i \in 1..Len(d.lexeme) : d.lexeme[i] = "."
              IN  PyFloat(CharsToInt(SubSeq(d.lexeme, 1, dot - 1)),
                          CharsToInt(SubSeq(d.lexeme, dot + 1, Len(d.lexeme))))
         ELSE PyInt(CharsToInt(d.lexeme))
    ELSE IF d.j = "string" THEN PyStr(d.chars)
    ELSE IF d.j = "array"
    THEN PyList([i \in 1..Len(d.elems) |-> json_load(d.elems[i])])
    ELSE PyDict([i \in 1..Len(d.members) |->
                    <<PyStr(d.members[i][1]), json_load(d.members[i][2])>>])

----------------------------------------------------------------------------
(* Paths: os.path on characters, the file system on components.            *)

\* the working directory of the process
Cwd == << <<"w">> >>

\* str.rfind(c), counted from 1: 0 when c does not occur
RECURSIVE rfind_from(_, _, _)
rfind_from(s, c, i) ==
    IF i = 0 \/ s[i] = c THEN i ELSE rfind_from(s, c, i - 1)

rfind(s, c) == rfind_from(s, c, Len(s))

\* os.path.join(a, *p)
RECURSIVE path_join(_, _)
path_join(a, p) ==
    IF p = <<>> THEN a
    ELSE LET b == Head(p)
         IN  IF b # <<>> /\ b[1] = "/" THEN path_join(b, Tail(p))
             ELSE IF a = <<>> \/ a[Len(a)] = "/" THEN path_join(a \o b, Tail(p))
             ELSE path_join(a \o <<"/">> \o b, Tail(p))

\* os.path.splitext(p)[-1]: from the last dot of p on, when that dot comes
\* after the last separator and after a character of the file name that is
\* no dot; empty otherwise
splitext_ext(p) ==
    LET sepIndex == rfind(p, "/")
        dotIndex == rfind(p, ".")
    IN  IF dotIndex > sepIndex
           /\ \E i \in (sepIndex + 1)..(dotIndex - 1) : p[i] # "."
        THEN SubSeq(p, dotIndex, Len(p))
        ELSE <<>>

\* str.rstrip('/')
RECURSIVE rstrip_sep(_)
rstrip_sep(s) ==
    IF s # <<>> /\ s[Len(s)] = "/" THEN rstrip_sep(SubSeq(s, 1, Len(s) - 1)) ELSE s

\* os.path.dirname(p)
path_dirname(p) ==
    LET head == SubSeq(p, 1, rfind(p, "/"))
    IN  IF head # <<>> /\ \E i \in 1..Len(head) : head[i] # "/"
        THEN rstrip_sep(head)
        ELSE head

\* the components of a path string, without the empty ones and the "." ones
RECURSIVE Components(_, _)
Components(p, cur) ==
    LET keep == IF cur = <<>> \/ cur = <<".">> THEN <<>> ELSE <<cur>>
    IN  IF p = <<>> THEN keep
        ELSE IF Head(p) = "/" THEN keep \o Components(Tail(p), <<>>)
        ELSE Components(Tail(p), Append(cur, Head(p)))

\* the absolute file-system path a path string names
Resolve(p) ==
    IF p # <<>> /\ p[1] = "/" THEN Components(p, <<>>)
    ELSE Cwd \o Components(p, <<>>)

\* the string of an absolute file-system path
RECURSIVE Unparse(_)
Unparse(cs) ==
    IF cs = <<>> THEN <<>> ELSE <<"/">> \o Head(cs) \o Unparse(Tail(cs))

\* os.path.abspath(p) and os.path.realpath(p) (no symbolic links)
path_abspath(p) ==
    IF Resolve(p) = <<>> THEN <<"/">> ELSE Unparse(Resolve(p))

Prefixes(cs) == {SubSeq(cs, 1, n) : n \in 0..Len(cs)}

\* pathlib.Path(p).mkdir(parents=True, exist_ok=True) in the file system
\* (ds, fs): the directories afterwards, or OSError when a regular file is
\* at p or above it
path_mkdir(p, ds, fs) ==
    IF \E q \in Prefixes(Resolve(p)) : q \in DOMAIN fs
    THEN Raise("OSError")
    ELSE Ok(ds \cup Prefixes(Resolve(p)))

\* a variant of is_dir that looks for a dot anywhere in the path
is_dir_anydot(path) == rfind(path, ".") = 0

\* lines 57-62
is_dir(path) == splitext_ext(path) = <<>>

\* lines 64-70
ensure_dir(path, ds, fs) ==
    LET dir_path == IF is_dir(path) THEN path ELSE path_dirname(path)
    IN  path_mkdir(dir_path, ds, fs)

----------------------------------------------------------------------------
(* The XManager instance.                                                  *)

XDir == <<"x", "_", "d", "i", "r">>
ParamsJson == <<"p", "a", "r", "a", "m", "s", ".", "j", "s", "o", "n">>
SourcePy == <<"s", "o", "u", "r", "c", "e", ".", "p", "y">>
MainPy == <<"m", "a", "i", "n", ".", "p", "y">>

\* datetime.now().strftime('%Y-%m-%d-%H-%M-%S') at the time of construction
Now == <<"2", "0", "2", "6", "-", "1", "1", "-", "0", "1", "-",
         "1", "4", "-", "2", "3", "-", "0", "0">>

\* contents of regular files
FScript == [kind |-> "script"]
FEmpty == [kind |-> "empty"]
FPartial == [kind |-> "partial"]
FJson(doc) == [kind |-> "json", doc |-> doc]

Put(fs, p, c) == [q \in (DOMAIN fs) \cup {p} |-> IF q = p THEN c ELSE fs[q]]

\* operations on the items of a dict
dict_has(items, k) == \E i \in 1..Len(items) : items[i][1] = k
dict_index(items, k) == CHOOSE i \in 1..Len(items) : items[i][1] = k
dict_get(items, k) == items[dict_index(items, k)][2]
dict_keys(items) == [i \in 1..Len(items) |-> items[i][1]]
RECURSIVE dict_del(_, _)
dict_del(items, k) ==
    IF items = <<>> THEN <<>>
    ELSE IF Head(items)[1] = k THEN dict_del(Tail(items), k)
    ELSE <<Head(items)>> \o dict_del(Tail(items), k)

\* a variant of setattr that moves an overwritten attribute to the end
setattr_move(items, name, v) == Append(dict_del(items, PyStr(name)), <<PyStr(name), v>>)

\* self.<name> = v (lines 26-30, 46): a new attribute is appended to
\* __dict__, an existing one keeps its place and takes the value
setattr(items, name, v) ==
    IF dict_has(items, PyStr(name))
    THEN [i \in 1..Len(items) |->
             IF items[i][1] = PyStr(name) THEN <<PyStr(name), v>> ELSE items[i]]
    ELSE Append(items, <<PyStr(name), v>>)

\* lines 72-85 on the instance with __dict__ c in the file system (ds, fs):
\* the path returned and the directories afterwards, or the exception
get_path(c, segs, ensure, ds, fs) ==
    IF ~dict_has(c, PyStr(XDir)) THEN Raise("AttributeError")
    ELSE LET x_dir == dict_get(c, PyStr(XDir))
         IN  IF x_dir.tag # "str" THEN Raise("TypeError")
             ELSE LET path == path_join(x_dir.s, segs)
                      made == IF ensure THEN ensure_dir(path, ds, fs) ELSE Ok(ds)
                  IN  IF made.raised THEN made
                      ELSE [raised |-> FALSE, val |-> path, dirs |-> made.val]

\* lines 124-127
get_params(c) ==
    LET params == jsonfy(PyObject(c))
    IN  IF params.raised THEN params
        ELSE IF ~dict_has(params.val.items, PyStr(XDir)) THEN Raise("KeyError")
        ELSE Ok(PyDict(dict_del(params.val.items, PyStr(XDir))))

\* a variant of self_after_get_params where the mapping is __dict__ itself
self_after_get_params_alias(c) == dict_del(c, PyStr(XDir))

\* self.__dict__ after get_params: jsonfy fills a new json_dict (line 119)
\* and line 126 deletes from that one, so __dict__ is as before
self_after_get_params(c) == c

\* lines 131-132 once the path is known: open(path, 'w') empties the file,
\* then get_params() runs, then json.dump writes.  old is the content before
\* (<<>> when there is no file); the result is the outcome and the content
\* after
save_params_write(c, old) ==
    LET params == get_params(c)
        text == IF params.raised THEN params ELSE json_dump(params.val)
    IN  IF params.raised THEN [out |-> params, content |-> <<FEmpty>>]
        ELSE IF text.raised THEN [out |-> text, content |-> <<FPartial>>]
        ELSE [out |-> Ok(PyNone), content |-> <<FJson(text.val)>>]

----------------------------------------------------------------------------
(* The inputs.                                                             *)

NameA == <<"a">>
NameB == <<"b">>
KeyA == PyStr(NameA)
KeyB == PyStr(NameB)
AttrNames == {XDir, NameA, NameB}

\* sys.argv[0]: empty in a REPL, the script, or "-c" under python -c
Argv0s == {<<>>, MainPy, <<"-", "c">>}

\* the arguments of XManager(...): 'e.d', '1'; and the script itself, under
\* which no directory can be made
Bases == { << <<"e", ".", "d">>, <<"1">> >>, <<MainPy>> }

\* the arguments of get_path
SegSeqs ==
    { <<>>,
      << <<"f", "/", "p", ".", "g">> >>,
      << <<"f">>, <<"p", ".", "g">> >>,
      << <<"c">> >>,
      << <<".", "h">> >>,
      << <<"v", ".", "1", "/", "c">> >>,
      << ParamsJson, <<"c">> >>,
      << <<"/", "t">> >> }

Weights == NdArray(<<2, 2>>, <<PyFloat(1, 0), PyFloat(2, 0), PyFloat(3, 0), PyFloat(4, 0)>>)
OneTwoThree == PyList(<<PyInt(1), PyInt(2), PyInt(3)>>)
Record == PyObject(<< <<KeyA, PyInt(1)>>, <<KeyB, OneTwoThree>> >>)
IntKeyed == PyDict(<< <<PyInt(1), PyStr(<<"r">>)>> >>)
TupleKeyed == PyDict(<< <<PyTuple(<<PyInt(1)>>), PyInt(1)>> >>)
DeepSet == PyObject(<< <<KeyA, PyTuple(<<PyInt(1), PyDict(<< <<KeyB, PySet>> >>)>>)>> >>)
OtherDir == PyStr(<<"/", "o", ".", "t">>)

\* the values assigned to attributes where serialization is looked at
FieldValues == {PyInt(1), Weights, Record, IntKeyed, TupleKeyed, PySet, DeepSet}

\* the values assigned to attributes where paths are looked at
PathValues == {PyInt(1), OtherDir, TupleKeyed}

\* the values handed to jsonfy alone: the seeds, wrapped MaxDepth times
Seeds ==
    {PyNone, PyBool(TRUE), PyInt(1), PyFloat(1, 5), PyStr(<<"r">>), PySet,
     OneTwoThree, Weights, NdArray(<<3>>, <<PyInt(1), PyInt(2), PyInt(3)>>),
     NdArray(<<>>, <<PyInt(7)>>),
     NdArray(<<2, 1, 2>>, <<PyInt(1), PyInt(2), PyInt(3), PyInt(4)>>)}

Wrap(v) ==
    {PyList(<<v>>), PyList(<<PyInt(2), v>>), PyTuple(<<v, PyNone>>),
     PyDict(<< <<KeyA, v>> >>), PyDict(<< <<PyInt(1), PyInt(2)>>, <<KeyB, v>> >>),
     PyObject(<< <<KeyA, PyInt(1)>>, <<KeyB, v>> >>)}

RECURSIVE ValuesOfDepth(_)
ValuesOfDepth(d) ==
    IF d = 0 THEN Seeds
    ELSE LET S == ValuesOfDepth(d - 1) IN S \cup UNION {Wrap(v) : v \in S}

----------------------------------------------------------------------------
(* The state machine.                                                      *)

Init ==
    /\ pc = "new"
    /\ argv0 \in Argv0s
    /\ ctx = <<>>
    /\ dirs = Prefixes(Cwd)
    /\ files = [q \in {Cwd \o <<MainPy>>} |-> FScript]
    /\ ret = [op |-> "none"]
    /\ xdir0 = <<>>
    /\ assigned = <<>>
    /\ steps = 0

\* shutil.copy(src, dst) in the file system (ds, fs): the files afterwards,
\* or OSError when src is no regular file
shutil_copy(src, dst, ds, fs) ==
    IF Resolve(src) \notin DOMAIN fs THEN Raise("OSError")
    ELSE IF Resolve(dst) \in ds
    THEN Ok(Put(fs, Resolve(dst) \o <<Resolve(src)[Len(Resolve(src))]>>, fs[Resolve(src)]))
    ELSE Ok(Put(fs, Resolve(dst), fs[Resolve(src)]))

\* line 53: whether __init__ copies the script
init_copies(a, fs) == a # <<>>

\* lines 43-55: x = XManager(*base)
Construct(base) ==
    /\ pc = "new"
    /\ LET base_dir == path_join(Head(base), Tail(base))
           x_dir == path_join(path_abspath(base_dir), <<Now>>)
           self == setattr(<<>>, XDir, PyStr(x_dir))
           made == ensure_dir(x_dir, dirs, files)
       IN  /\ ctx' = self
           /\ xdir0' = x_dir
           /\ IF made.raised
              THEN /\ pc' = "failed"
                   /\ ret' = [op |-> "init", out |-> made]
                   /\ UNCHANGED <<dirs, files>>
              ELSE IF ~init_copies(argv0, files)
              THEN /\ pc' = "ready"
                   /\ ret' = [op |-> "init", out |-> Ok(PyNone)]
                   /\ dirs' = made.val
                   /\ UNCHANGED files
              ELSE LET script_path == path_abspath(argv0)
                       dst == get_path(self, <<SourcePy>>, TRUE, made.val, files)
                       copied == IF dst.raised THEN dst
                                 ELSE shutil_copy(script_path, dst.val, dst.dirs, files)
                   IN  /\ dirs' = IF dst.raised THEN made.val ELSE dst.dirs
                       /\ files' = IF copied.raised THEN files ELSE copied.val
                       /\ pc' = IF copied.raised THEN "failed" ELSE "ready"
                       /\ ret' = [op |-> "init",
                                  out |-> IF copied.raised THEN copied ELSE Ok(PyNone)]
    /\ UNCHANGED <<argv0, assigned, steps>>

\* x.<name> = v
SetAttr(name, v) ==
    /\ pc = "ready"
    /\ ctx' = setattr(ctx, name, v)
    /\ assigned' = IF name = XDir \/ name \in Range(assigned)
                   THEN assigned ELSE Append(assigned, name)
    /\ ret' = [op |-> "setattr", name |-> name, value |-> v]
    /\ steps' = steps + 1
    /\ UNCHANGED <<pc, argv0, dirs, files, xdir0>>

\* x.get_path(*segs, ensure_dir=ensure)
GetPath(segs, ensure) ==
    /\ pc = "ready"
    /\ LET r == get_path(ctx, segs, ensure, dirs, files)
       IN  /\ dirs' = IF r.raised THEN dirs ELSE r.dirs
           /\ ret' = [op |-> "get_path", segs |-> segs, ensure |-> ensure,
                      out |-> IF r.raised THEN r ELSE Ok(r.val),
                      existed |-> ~r.raised /\ Resolve(r.val) \in dirs \cup DOMAIN files]
    /\ steps' = steps + 1
    /\ UNCHANGED <<pc, argv0, ctx, files, xdir0, assigned>>

\* x.get_params()
GetParams ==
    /\ pc = "ready"
    /\ ret' = [op |-> "get_params", out |-> get_params(ctx)]
    /\ ctx' = self_after_get_params(ctx)
    /\ steps' = steps + 1
    /\ UNCHANGED <<pc, argv0, dirs, files, xdir0, assigned>>

\* lines 129-132: x.save_params()
SaveParams ==
    /\ pc = "ready"
    /\ LET p == get_path(ctx, <<ParamsJson>>, TRUE, dirs, files)
           target == Resolve(p.val)
           old == IF target \in DOMAIN files THEN <<files[target]>> ELSE <<>>
           w == save_params_write(ctx, old)
       IN  IF p.raised
           THEN /\ ret' = [op |-> "save_params", out |-> p, old |-> <<>>]
                /\ UNCHANGED <<ctx, dirs, files>>
           ELSE IF target \in p.dirs
           THEN /\ ret' = [op |-> "save_params", out |-> Raise("OSError"), old |-> <<>>]
                /\ dirs' = p.dirs
                /\ UNCHANGED <<ctx, files>>
           ELSE /\ ret' = [op |-> "save_params", out |-> w.out, old |-> old]
                /\ dirs' = p.dirs
                /\ files' = IF w.content = <<>> THEN files
                            ELSE Put(files, target, w.content[1])
                /\ ctx' = self_after_get_params(ctx)
    /\ steps' = steps + 1
    /\ UNCHANGED <<pc, argv0, xdir0, assigned>>

Next ==
    \/ \E base \in Bases : Construct(base)
    \/ steps < MaxSteps /\ \E name \in AttrNames, v \in PathValues : SetAttr(name, v)
    \/ steps < MaxSteps /\ \E segs \in SegSeqs, ensure \in BOOLEAN : GetPath(segs, ensure)
    \/ steps < MaxSteps /\ GetParams
    \/ steps < MaxSteps /\ SaveParams

Spec == Init /\ [][Next]_vars

\* the serialization side: every value, no get_path call by the user
InitSer == Init /\ argv0 = MainPy

NextSer ==
    \/ Construct(<< <<"e", ".", "d">>, <<"1">> >>)
    \/ steps < MaxSerSteps /\ \E name \in AttrNames, v \in FieldValues : SetAttr(name, v)
    \/ steps < MaxSerSteps /\ GetParams
    \/ steps < MaxSerSteps /\ SaveParams

SpecSer == InitSer /\ [][NextSer]_vars

\* jsonfy alone, applied to one value
InitJsonfy ==
    /\ pc = "pure"
    /\ argv0 = <<>>
    /\ ctx = <<>>
    /\ dirs = {}
    /\ files = <<>>
    /\ ret \in {[op |-> "arg", x |-> v] : v \in ValuesOfDepth(MaxDepth)}
    /\ xdir0 = <<>>
    /\ assigned = <<>>
    /\ steps = 0

Jsonfy ==
    /\ pc = "pure"
    /\ ret.op = "arg"
    /\ ret' = [op |-> "jsonfy", x |-> ret.x, out |-> jsonfy(ret.x)]
    /\ UNCHANGED <<pc, argv0, ctx, dirs, files, xdir0, assigned, steps>>

SpecJsonfy == InitJsonfy /\ [][Jsonfy]_vars

----------------------------------------------------------------------------
(* The properties.                                                         *)

\* the value of self.x_dir, as a one-element sequence; empty when it is no str
XDirStr ==
    IF dict_has(ctx, PyStr(XDir)) /\ dict_get(ctx, PyStr(XDir)).tag = "str"
    THEN <<dict_get(ctx, PyStr(XDir)).s>>
    ELSE <<>>

\* the content of params.json under self.x_dir, as a one-element sequence;
\* empty when there is no such file
ParamsFile ==
    IF XDirStr # <<>> /\ Resolve(path_join(XDirStr[1], <<ParamsJson>>)) \in DOMAIN files
    THEN <<files[Resolve(path_join(XDirStr[1], <<ParamsJson>>))]>>
    ELSE <<>>

Returned(op) == ret.op = op /\ ~ret.out.raised

\* C1: when get_params returns, the keys of its mapping are the user
\* attribute names in the order of their first assignment, and x_dir is not
\* among them.
C1_ParamsKeys ==
    Returned("get_params") =>
        /\ dict_keys(ret.out.val.items) = [i \in 1..Len(assigned) |-> PyStr(assigned[i])]
        /\ PyStr(XDir) \notin Range(dict_keys(ret.out.val.items))

\* get_params returned after two user attributes were assigned and one of
\* them was assigned again
C1_Witness ==
    /\ Returned("get_params")
    /\ steps = 4
    /\ Len(assigned) = 2
    /\ XDirStr = <<xdir0>>

\* the conversion as the specification words it, by the kind of the value
RECURSIVE RefArray(_, _, _, _)
RefArray(shape, data, axis, offset) ==
    IF axis > Len(shape) THEN data[offset + 1]
    ELSE PyList([i \in 1..shape[axis] |->
             RefArray(shape, data, axis + 1,
                      offset + (i - 1) * Product(SubSeq(shape, axis + 1, Len(shape))))])

RECURSIVE RefJson(_)
RefJson(v) ==
    CASE v.tag = "ndarray" -> RefArray(v.shape, v.data, 1, 0)
      [] v.tag = "dict" ->
            PyDict([i \in 1..Len(v.items) |-> <<v.items[i][1], RefJson(v.items[i][2])>>])
      [] v.tag \in {"list", "tuple"} ->
            PyList([i \in 1..Len(v.elems) |-> RefJson(v.elems[i])])
      [] v.tag = "object" ->
            PyDict([i \in 1..Len(v.attrs) |-> <<v.attrs[i][1], RefJson(v.attrs[i][2])>>])
      [] OTHER -> v

\* whether v is, or holds inside mappings, sequences or objects, a value that
\* is no scalar, no container, no array and has no attributes of its own
RECURSIVE HoldsNonSerializable(_)
HoldsNonSerializable(v) ==
    CASE v.tag = "set" -> TRUE
      [] v.tag = "dict" ->
            \E i \in 1..Len(v.items) : HoldsNonSerializable(v.items[i][2])
      [] v.tag \in {"list", "tuple"} ->
            \E i \in 1..Len(v.elems) : HoldsNonSerializable(v.elems[i])
      [] v.tag = "object" ->
            \E i \in 1..Len(v.attrs) : HoldsNonSerializable(v.attrs[i][2])
      [] OTHER -> FALSE

\* C2: on a value built from scalars, arrays, mappings, sequences and objects
\* with attributes, jsonfy returns what the reference conversion gives.
C2_JsonfyIsReference ==
    (ret.op = "jsonfy" /\ ~HoldsNonSerializable(ret.x)) => ret.out = Ok(RefJson(ret.x))

\* jsonfy was applied to the object {a: 1, b: [1,2,3]} and gave the dict
C2_Witness ==
    /\ ret.op = "jsonfy"
    /\ ret.x = Record
    /\ ret.out = Ok(PyDict(<< <<KeyA, PyInt(1)>>, <<KeyB, OneTwoThree>> >>))

RECURSIVE InJsonModel(_)
InJsonModel(v) ==
    CASE v.tag \in {"None", "bool", "int", "float", "str"} -> TRUE
      [] v.tag = "list" -> \A i \in 1..Len(v.elems) : InJsonModel(v.elems[i])
      [] v.tag = "dict" ->
            \A i \in 1..Len(v.items) :
                v.items[i][1].tag = "str" /\ InJsonModel(v.items[i][2])
      [] OTHER -> FALSE

\* C4: when get_params returns, its result is a JSON object all of whose
\* values are JSON values and all of whose keys, at every depth, are strings.
C4_ResultInJsonModel ==
    Returned("get_params") => ret.out.val.tag = "dict" /\ InJsonModel(ret.out.val)

\* C5: after save_params returned, parsing params.json gives what get_params
\* returns.
C5_FileIsParams ==
    Returned("save_params") =>
        /\ ParamsFile # <<>>
        /\ ParamsFile[1].kind = "json"
        /\ Ok(json_load(ParamsFile[1].doc)) = get_params(ctx)

\* C6: a get_params or save_params call, returning or raising, leaves the
\* attributes of the context as they were, and a save_params call right
\* after a save_params call leaves the files as they were.
C6_NoEffectOnState ==
    [][ /\ (steps' = steps + 1 /\ ret'.op \in {"get_params", "save_params"})
            => ctx' = ctx
        /\ (steps' = steps + 1 /\ ret.op = "save_params" /\ ret'.op = "save_params")
            => files' = files ]_vars

\* the second of two calls made on the context was a save_params that found
\* the file the first one wrote
C6_Witness ==
    /\ ret.op = "save_params"
    /\ steps = 2
    /\ ret.old # <<>>
    /\ ParamsFile = ret.old

\* whether sys.argv[0] names an existing file
SourceResolvable ==
    argv0 # <<>> /\ Resolve(path_abspath(argv0)) \in DOMAIN files

\* C7: when sys.argv[0] is empty or names no existing file, and the run
\* directory can be made, construction returns, the run directory exists and
\* no source.py is in it.
C7_AbsentSourceNotFatal ==
    (pc # "new" /\ ~SourceResolvable
        /\ \A q \in Prefixes(Resolve(xdir0)) : q \notin DOMAIN files)
    => /\ pc = "ready"
       /\ Resolve(xdir0) \in dirs
       /\ Resolve(xdir0) \o <<SourcePy>> \notin DOMAIN files

\* the path of the specification: the segments from the last absolute one
\* on, or x_dir and all the segments, with one separator between them
RECURSIVE JoinWithSep(_)
JoinWithSep(parts) ==
    IF Len(parts) = 1 THEN parts[1]
    ELSE parts[1] \o <<"/">> \o JoinWithSep(Tail(parts))

RefJoin(a, segs) ==
    LET abs == {i \in 1..Len(segs) : segs[i][1] = "/"}
        from == IF abs = {} THEN 0 ELSE CHOOSE i \in abs : \A j \in abs : j <= i
    IN  IF from = 0 THEN JoinWithSep(<<a>> \o segs)
        ELSE JoinWithSep(SubSeq(segs, from, Len(segs)))

\* whether a file name has an extension: a dot after a character that is no dot
HasExtension(name) ==
    \E i \in 2..Len(name) : name[i] = "." /\ \E j \in 1..(i - 1) : name[j] # "."

\* C8: when get_path with ensure_dir returns, it returns x_dir joined with
\* the segments; if the last component has no extension a directory is at
\* that path, and if it has one the parent is a directory and the path itself
\* is what it was before the call.
C8_ExtensionHeuristic ==
    (Returned("get_path") /\ ret.ensure) =>
        LET path == ret.out.val
            at == Resolve(path)
        IN  /\ path = RefJoin(XDirStr[1], ret.segs)
            /\ IF at # <<>> /\ HasExtension(at[Len(at)])
               THEN /\ SubSeq(at, 1, Len(at) - 1) \in dirs
                    /\ (at \in dirs \cup DOMAIN files) = ret.existed
               ELSE at \in dirs

\* get_path('f/p.g') returned: f is a directory and nothing is at f/p.g
C8_WitnessFile ==
    /\ Returned("get_path")
    /\ ret.ensure
    /\ ret.segs = << <<"f", "/", "p", ".", "g">> >>
    /\ XDirStr = <<xdir0>>
    /\ Resolve(xdir0) \o << <<"f">> >> \in dirs
    /\ Resolve(ret.out.val) \notin dirs \cup DOMAIN files

\* C9: once construction has returned, x_dir has the value construction gave
\* it and names an existing directory.
C9_XDirFixed ==
    pc = "ready" => XDirStr = <<xdir0>> /\ Resolve(xdir0) \in dirs

\* C10: when save_params raises and params.json held a complete
\* serialization before the call, it holds the same one after it.
C10_RaiseKeepsFile ==
    (ret.op = "save_params" /\ ret.out.raised
        /\ ret.old # <<>> /\ ret.old[1].kind = "json")
    => ParamsFile = ret.old

====
